---------------------------- MODULE Spec2Model ----------------------------
(* Model of the mcp-fantastical server (src/src/index.ts): the startup     *)
(* platform guard, the call-tool dispatcher with its three suspension      *)
(* points (the awaited osascript run, the awaited URL open, the awaited    *)
(* fallback URL open), the command executor's failure policy, the parser   *)
(* of the pipe-delimited event listing and the JSON text of the responses. *)
(*                                                                         *)
(* Text is a sequence of tokens (strings).  A token is either one of the   *)
(* characters the code treats specially (quote, backslash, newline, pipe,  *)
(* space, ampersand, equals sign) or an atom standing for a run of         *)
(* ordinary characters.  "s.includes(x)" is membership of the token x.     *)
EXTENDS Integers, Sequences, FiniteSets, TLC

\* ------------------------------------------------------------------ text
Q    == "\""
BS   == "\\"
NL   == "\n"
SP   == " "
PIPE == "|"
AMP  == "&"
EQ   == "="
\* newline plus indentation, as JSON.stringify(v, null, 2) emits it
IND  == "\n  "

RECURSIVE Concat(_)
Concat(ss) == IF ss = <<>> THEN <<>> ELSE Head(ss) \o Concat(Tail(ss))

RECURSIVE JoinWith(_, _)
JoinWith(ss, sep) ==
  IF ss = <<>> THEN <<>>
  ELSE IF Len(ss) = 1 THEN ss[1]
  ELSE ss[1] \o sep \o JoinWith(Tail(ss), sep)

MapTokens(s, F(_)) == Concat([i \in 1..Len(s) |-> F(s[i])])

Includes(s, tok) == \E i \in 1..Len(s) : s[i] = tok

StartsWith(s, p) == Len(p) <= Len(s) /\ SubSeq(s, 1, Len(p)) = p

IsWhite(tok) == tok \in {SP, NL}

\* String.prototype.trim
RECURSIVE TrimStart(_)
TrimStart(s) == IF s # <<>> /\ IsWhite(Head(s)) THEN TrimStart(Tail(s)) ELSE s

RECURSIVE TrimEnd(_)
TrimEnd(s) ==
  IF s # <<>> /\ IsWhite(s[Len(s)]) THEN TrimEnd(SubSeq(s, 1, Len(s) - 1)) ELSE s

Trim(s) == TrimEnd(TrimStart(s))

\* String.prototype.split(delim): always at least one piece
RECURSIVE SplitFrom(_, _, _, _)
SplitFrom(s, delim, i, cur) ==
  IF i > Len(s) THEN <<cur>>
  ELSE IF s[i] = delim THEN <<cur>> \o SplitFrom(s, delim, i + 1, <<>>)
  ELSE SplitFrom(s, delim, i + 1, Append(cur, s[i]))

Split(s, delim) == SplitFrom(s, delim, 1, <<>>)

\* ------------------------------------------------------------------ JSON
\* A JavaScript value: t is its kind, s its text (string contents, or the
\* literal of a number or boolean), ks/vs the keys and values of an object,
\* vs the elements of an array.
JV(t, s, ks, vs) == [t |-> t, s |-> s, ks |-> ks, vs |-> vs]
JUndefined   == JV("undefined", <<>>, <<>>, <<>>)
JString(s)   == JV("str", s, <<>>, <<>>)
JBool(b)     == JV("bool", <<IF b THEN "true" ELSE "false">>, <<>>, <<>>)
JNumber(n)   == JV("num", <<ToString(n)>>, <<>>, <<>>)
JArray(vs)   == JV("arr", <<>>, <<>>, vs)
JObject(ks, vs) == JV("obj", <<>>, ks, vs)

\* a JSON.stringify that copies string contents unescaped
JEscapeNothing(tok) == <<tok>>

\* Escaping of one character inside a JSON string literal
JEscapeTok(tok) ==
  IF tok = Q THEN <<"\\\"">>
  ELSE IF tok = BS THEN <<"\\\\">>
  ELSE IF tok = NL THEN <<"\\n">>
  ELSE <<tok>>

JQuote(s) == <<Q>> \o MapTokens(s, JEscapeTok) \o <<Q>>

\* Indices of the members JSON.stringify keeps: undefined values are dropped
KeptMembers(v) == SelectSeq([i \in 1..Len(v.vs) |-> i],
                              LAMBDA i : v.vs[i].t # "undefined")

RECURSIVE Stringify(_)
Stringify(v) ==
  CASE v.t = "str" -> JQuote(v.s)
    [] v.t \in {"num", "bool"} -> v.s
    [] v.t = "arr" ->
         IF v.vs = <<>> THEN <<"[", "]">>
         ELSE <<"[", IND>>
              \o JoinWith([i \in 1..Len(v.vs) |-> Stringify(v.vs[i])], <<",", IND>>)
              \o <<IND, "]">>
    [] v.t = "obj" ->
         LET kept == KeptMembers(v) IN
         IF kept = <<>> THEN <<"{", "}">>
         ELSE <<"{", IND>>
              \o JoinWith([j \in 1..Len(kept) |->
                             JQuote(<<v.ks[kept[j]]>>) \o <<":", SP>>
                             \o Stringify(v.vs[kept[j]])],
                          <<",", IND>>)
              \o <<IND, "}">>
    [] OTHER -> <<>>

\* JSON.parse, as far as the responses need it: objects, arrays, strings,
\* numbers, true and false, with insignificant whitespace between tokens.
JUnescapeTok(tok) ==
  IF tok = "\\\"" THEN <<Q>>
  ELSE IF tok = "\\\\" THEN <<BS>>
  ELSE IF tok = "\\n" THEN <<NL>>
  ELSE <<tok>>

JFail == [ok |-> FALSE, next |-> 0, val |-> JUndefined]
JOk(next, val) == [ok |-> TRUE, next |-> next, val |-> val]

RECURSIVE SkipWs(_, _)
SkipWs(t, i) == IF i <= Len(t) /\ t[i] \in {IND, SP, NL} THEN SkipWs(t, i + 1) ELSE i

\* index of the quote closing a string literal, 0 when the literal is malformed
\* (a raw newline or a lone backslash inside it, or no closing quote)
RECURSIVE ScanString(_, _)
ScanString(t, i) ==
  IF i > Len(t) THEN 0
  ELSE IF t[i] = Q THEN i
  ELSE IF t[i] \in {NL, BS, IND} THEN 0
  ELSE ScanString(t, i + 1)

NumberTokens == {ToString(n) : n \in -2000..2000}
IsNumberToken(tok) == tok \in NumberTokens

RECURSIVE ParseValue(_, _), ParseElements(_, _, _), ParseMembers(_, _, _, _)
ParseValue(t, i0) ==
  LET i == SkipWs(t, i0) IN
  IF i > Len(t) THEN JFail
  ELSE IF t[i] = Q THEN
    LET c == ScanString(t, i + 1) IN
    IF c = 0 THEN JFail
    ELSE JOk(c + 1, JString(MapTokens(SubSeq(t, i + 1, c - 1), JUnescapeTok)))
  ELSE IF t[i] \in {"true", "false"} THEN JOk(i + 1, JBool(t[i] = "true"))
  ELSE IF t[i] = "[" THEN ParseElements(t, i + 1, <<>>)
  ELSE IF t[i] = "{" THEN ParseMembers(t, i + 1, <<>>, <<>>)
  ELSE IF IsNumberToken(t[i]) THEN JOk(i + 1, JV("num", <<t[i]>>, <<>>, <<>>))
  ELSE JFail

ParseElements(t, i0, acc) ==
  LET i == SkipWs(t, i0) IN
  IF i > Len(t) THEN JFail
  ELSE IF t[i] = "]" /\ acc = <<>> THEN JOk(i + 1, JArray(<<>>))
  ELSE
    LET r == ParseValue(t, i) IN
    IF ~r.ok THEN JFail
    ELSE
      LET j == SkipWs(t, r.next) IN
      IF j > Len(t) THEN JFail
      ELSE IF t[j] = "," THEN ParseElements(t, j + 1, Append(acc, r.val))
      ELSE IF t[j] = "]" THEN JOk(j + 1, JArray(Append(acc, r.val)))
      ELSE JFail

ParseMembers(t, i0, ks, vs) ==
  LET i == SkipWs(t, i0) IN
  IF i > Len(t) THEN JFail
  ELSE IF t[i] = "}" /\ ks = <<>> THEN JOk(i + 1, JObject(<<>>, <<>>))
  ELSE IF t[i] # Q THEN JFail
  ELSE
    LET c == ScanString(t, i + 1) IN
    IF c = 0 \/ c # i + 2 THEN JFail
    ELSE
      LET k == SkipWs(t, c + 1) IN
      IF k > Len(t) \/ t[k] # ":" THEN JFail
      ELSE
        LET r == ParseValue(t, k + 1) IN
        IF ~r.ok THEN JFail
        ELSE
          LET j == SkipWs(t, r.next) IN
          IF j > Len(t) THEN JFail
          ELSE IF t[j] = "," THEN
            ParseMembers(t, j + 1, Append(ks, t[i + 1]), Append(vs, r.val))
          ELSE IF t[j] = "}" THEN
            JOk(j + 1, JObject(Append(ks, t[i + 1]), Append(vs, r.val)))
          ELSE JFail

JsonParse(t) ==
  LET r == ParseValue(t, 1) IN
  IF r.ok /\ SkipWs(t, r.next) = Len(t) + 1 THEN r ELSE JFail

IsJson(t) == JsonParse(t).ok

HasKey(v, k) == v.t = "obj" /\ \E i \in 1..Len(v.ks) : v.ks[i] = k

\* the value of member k of object v (the last one wins, as in JSON.parse)
Member(v, k) ==
  LET is == {i \in 1..Len(v.ks) : v.ks[i] = k} IN
  IF v.t = "obj" /\ is # {} THEN v.vs[CHOOSE i \in is : \A j \in is : j <= i]
  ELSE JUndefined

\* ------------------------------------------------- values and arguments
\* An optional JavaScript value: present = FALSE is undefined
Some(v)   == [present |-> TRUE, v |-> v]
NoText    == [present |-> FALSE, v |-> <<>>]
NoBool    == [present |-> FALSE, v |-> FALSE]
NoNumber  == [present |-> FALSE, v |-> 0]

\* `${x}` of an optional string
TemplateText(o) == IF o.present THEN o.v ELSE <<"undefined">>

\* truthiness of an optional string: undefined and "" are falsy
TruthyText(o) == o.present /\ o.v # <<>>

OptJson(o) == IF o.present THEN JString(o.v) ELSE JUndefined

\* request.params.arguments: undefined, or a bag of optional values
UndefinedArgs ==
  [defined |-> FALSE, sentence |-> NoText, calendar |-> NoText, notes |-> NoText,
   addImmediately |-> NoBool, days |-> NoNumber, date |-> NoText, query |-> NoText]

EmptyArgs == [UndefinedArgs EXCEPT !.defined = TRUE]

\* an Error object (instanceof Error) with its message
ErrorOf(message) == [isErrorObject |-> TRUE, message |-> message]

\* the TypeError of destructuring undefined
DestructureError(prop) ==
  ErrorOf(<<"Cannot destructure property '", prop, "' of 'args' as it is undefined.">>)

\* ------------------------------------------------------------ constants
PermissionCodeText == "-1743"
PermissionPhrase   == "Not authorised to send Apple events to Calendar"

\* a classifier that takes every Error for a permission error
IsAnyError(error) == error.isErrorObject

\* a classifier that takes no error for a permission error
IsNeverPermissionError(error) == FALSE

IsCalendarPermissionError(error) ==
  IF error.isErrorObject
  THEN Includes(error.message, PermissionCodeText)
       \/ Includes(error.message, PermissionPhrase)
  ELSE FALSE

CALENDAR_PERMISSION_MESSAGE ==
  <<"Calendar app permission denied.", NL, NL,
    "This tool reads events from the macOS Calendar app (which Fantastical syncs with).", NL,
    "To fix this, grant Calendar automation permission:", NL, NL,
    "1. Open System Settings -> Privacy & Security -> Automation", NL,
    "2. Find the app running this MCP server", NL,
    "3. Enable the ", Q, "Calendar", Q, " toggle", NL, NL,
    "As a workaround, I can open Fantastical to show your calendar instead.">>

FallbackNote == <<NL, NL, "Fallback: Opened Fantastical to today's view.">>

ShowTodayUrl == <<"x-fantastical3://show/calendar/today">>

ToolNames ==
  {"fantastical_create_event", "fantastical_get_today", "fantastical_get_upcoming",
   "fantastical_show_date", "fantastical_get_calendars", "fantastical_search"}

\* const TOOLS: the tool definitions, by name, in the order of the array
TOOLS ==
  <<"fantastical_create_event", "fantastical_get_today", "fantastical_get_upcoming",
    "fantastical_show_date", "fantastical_get_calendars", "fantastical_search">>

\* ------------------------------------------------------ command executor
\* script.replace(/\\/g, '\\\\').replace(/"/g, '\\"')
EscapeScriptTok(tok) ==
  IF tok = BS THEN <<BS, BS>>
  ELSE IF tok = Q THEN <<BS, Q>>
  ELSE <<tok>>

OsascriptCommand(script) ==
  <<"osascript -e ", Q>> \o MapTokens(script, EscapeScriptTok) \o <<Q>>

OpenCommand(url) == <<"open ", Q>> \o url \o <<Q>>

IsOsascript(cmd) == cmd # <<>> /\ cmd[1] = "osascript -e "
IsOpen(cmd)      == cmd # <<>> /\ cmd[1] = "open "

\* How a child process ends: resolved with its two streams (ok), or rejected
\* by child_process.exec with "Command failed: <cmd>\n<stderr>".
ExecOutcome(ok, stdout, stderr) == [ok |-> ok, stdout |-> stdout, stderr |-> stderr]

ExecError(cmd, out) == ErrorOf(<<"Command failed: ">> \o cmd \o <<NL>> \o out.stderr)

Returned(v) == [threw |-> FALSE, value |-> v, error |-> ErrorOf(<<>>)]
Threw(e)    == [threw |-> TRUE, value |-> <<>>, error |-> e]

\* the catch clause of runAppleScriptMultiline
WrapAppleScriptError(error) ==
  IF error.isErrorObject
  THEN ErrorOf(<<"AppleScript error: ">> \o error.message)
  ELSE error

\* runAppleScriptMultiline after its await: cmd is the command it launched
RunAppleScriptMultiline(cmd, out) ==
  IF out.ok
  THEN IF out.stderr # <<>> /\ out.stdout = <<>>
       THEN Threw(WrapAppleScriptError(ErrorOf(out.stderr)))
       ELSE Returned(Trim(out.stdout))
  ELSE Threw(WrapAppleScriptError(ExecError(cmd, out)))

\* script.replace(/'/g, "'\\''")
APOS == "'"
EscapeQuotedTok(tok) == IF tok = APOS THEN <<APOS, BS, APOS, APOS>> ELSE <<tok>>

\* `osascript -e '${...}'`
OsascriptStatementCommand(script) ==
  <<"osascript -e ", APOS>> \o MapTokens(script, EscapeQuotedTok) \o <<APOS>>

\* the catch clause of runAppleScript
WrapStatementError(error) ==
  IF error.isErrorObject
  THEN ErrorOf(<<"AppleScript error: ">> \o error.message)
  ELSE error

\* an executor that takes any standard-error output for a failure
RunAppleScriptFailingOnStderr(cmd, out) ==
  IF out.ok
  THEN IF out.stderr # <<>>
       THEN Threw(WrapStatementError(ErrorOf(out.stderr)))
       ELSE Returned(Trim(out.stdout))
  ELSE Threw(WrapStatementError(ExecError(cmd, out)))

\* runAppleScript after its await: cmd is the command it launched
RunAppleScript(cmd, out) ==
  IF out.ok
  THEN IF out.stderr # <<>> /\ out.stdout = <<>>
       THEN Threw(WrapStatementError(ErrorOf(out.stderr)))
       ELSE Returned(Trim(out.stdout))
  ELSE Threw(WrapStatementError(ExecError(cmd, out)))

\* the statement checkFantasticalInstalled runs
InstalledCheckScript ==
  <<"tell application ", Q, "System Events", Q,
    " to return exists (processes where name is ", Q, "Fantastical", Q, ")">>

\* an openFantasticalUrl that swallows the failure of the open command
OpenIgnoringFailure(cmd, out) == Returned(<<>>)

\* openFantasticalUrl after its await: resolves to nothing or rethrows
OpenFantasticalUrl(cmd, out) ==
  IF out.ok THEN Returned(<<>>) ELSE Threw(ExecError(cmd, out))

\* ------------------------------------------------------------------ URLs
\* a query string built by plain concatenation, nothing percent-encoded
FormEncodeNothing(tok) == <<tok>>

\* URLSearchParams serialisation (application/x-www-form-urlencoded)
FormEncodeTok(tok) ==
  CASE tok = SP   -> <<"+">>
    [] tok = AMP  -> <<"%26">>
    [] tok = EQ   -> <<"%3D">>
    [] tok = Q    -> <<"%22">>
    [] tok = BS   -> <<"%5C">>
    [] tok = NL   -> <<"%0A">>
    [] tok = PIPE -> <<"%7C">>
    [] tok = "+"  -> <<"%2B">>
    [] tok = "%"  -> <<"%25">>
    [] OTHER      -> <<tok>>

\* encodeURIComponent
UriEncodeTok(tok) ==
  CASE tok = SP   -> <<"%20">>
    [] tok = AMP  -> <<"%26">>
    [] tok = EQ   -> <<"%3D">>
    [] tok = Q    -> <<"%22">>
    [] tok = BS   -> <<"%5C">>
    [] tok = NL   -> <<"%0A">>
    [] tok = PIPE -> <<"%7C">>
    [] tok = "+"  -> <<"%2B">>
    [] tok = "%"  -> <<"%25">>
    [] OTHER      -> <<tok>>

EncodeURIComponent(s) == MapTokens(s, UriEncodeTok)

Param(k, v) == [k |-> k, v |-> v]

\* URLSearchParams.toString()
ParamsToString(params) ==
  JoinWith([i \in 1..Len(params) |->
              MapTokens(params[i].k, FormEncodeTok) \o <<EQ>>
              \o MapTokens(params[i].v, FormEncodeTok)],
           <<AMP>>)

\* the parameters appended for fantastical_create_event
CreateEventParams(args) ==
  LET addImmediately == IF args.addImmediately.present
                        THEN args.addImmediately.v ELSE TRUE
  IN  <<Param(<<"s">>, TemplateText(args.sentence))>>
      \o (IF addImmediately THEN <<Param(<<"add">>, <<"1">>)>> ELSE <<>>)
      \o (IF TruthyText(args.calendar)
          THEN <<Param(<<"calendarName">>, args.calendar.v)>> ELSE <<>>)
      \o (IF TruthyText(args.notes)
          THEN <<Param(<<"n">>, args.notes.v)>> ELSE <<>>)

CreateEventUrl(args) ==
  <<"x-fantastical3://parse?">> \o ParamsToString(CreateEventParams(args))

ShowDateUrl(args) ==
  <<"x-fantastical3://show/calendar/">> \o EncodeURIComponent(TemplateText(args.date))

SearchUrl(args) ==
  <<"x-fantastical3://search?query=">> \o EncodeURIComponent(TemplateText(args.query))

\* --------------------------------------------------------------- scripts
\* The AppleScript programs, cut into tokens at the characters the shell
\* escaping rewrites (quotes, backslashes) and at the interpolated number.
EventScript(startName, endName, daysText) ==
  <<NL, "set output to ", Q, Q, NL,
    "set ", startName, " to current date", NL,
    "set hours, minutes, seconds of ", startName, " to 0", NL,
    "set ", endName, " to ", startName, " + (", daysText, " * days)", NL, NL,
    "tell application ", Q, "Calendar", Q, NL,
    "repeat with cal in calendars ... try ... every event of cal whose start date >= ",
    startName, " and start date < ", endName, NL,
    "set output to output & calName & ", Q, PIPE, Q, " & evtTitle & ", Q, PIPE, Q,
    " & (evtStart as string) & ", Q, PIPE, Q, " & (evtEnd as string) & ", Q, PIPE, Q,
    " & evtLoc & ", Q, BS, "n", Q, NL,
    "end repeat ... end try ... end repeat", NL, "end tell", NL, "return output">>

GetTodayScript == EventScript("todayStart", "todayEnd", "1")

\* `${days}` of a number
GetUpcomingScript(days) == EventScript("rangeStart", "rangeEnd", ToString(days))

GetCalendarsScript ==
  <<NL, "set output to ", Q, Q, NL, "tell application ", Q, "Calendar", Q, NL,
    "repeat with cal in calendars", NL, "set calName to name of cal", NL,
    "set calColor to color of cal", NL,
    "set output to output & calName & ", Q, BS, "n", Q, NL,
    "end repeat", NL, "end tell", NL, "return output">>

\* ---------------------------------------------------------- result parser
\* new Date(text).getTime(): the day number of the date strings the model
\* uses, NaN (valid = FALSE) for undefined and for any other text
GetTime(start) ==
  IF ~start.present THEN [valid |-> FALSE, t |-> 0]
  ELSE IF start.v = <<"2025-01-01">> THEN [valid |-> TRUE, t |-> 20089]
  ELSE IF start.v = <<"2025-01-02">> THEN [valid |-> TRUE, t |-> 20090]
  ELSE IF start.v = <<"2025-01-03">> THEN [valid |-> TRUE, t |-> 20091]
  ELSE [valid |-> FALSE, t |-> 0]

\* a destructuring that loses the last piece of every line
FieldOffByOne(pieces, i) == IF i < Len(pieces) THEN Some(pieces[i]) ELSE NoText

\* const [calendar, title, start, end, location] = line.split("|")
Field(pieces, i) == IF i <= Len(pieces) THEN Some(pieces[i]) ELSE NoText

ParseEventLine(line) ==
  LET pieces == Split(line, PIPE)
      location == Field(pieces, 5)
  IN  [calendar |-> Field(pieces, 1), title |-> Field(pieces, 2),
       start |-> Field(pieces, 3), end |-> Field(pieces, 4),
       location |-> IF TruthyText(location) THEN location ELSE Some(<<>>)]

\* a split that keeps every line, blank ones included
AllLines(result) == Split(result, NL)

\* result.split("\n").filter(line => line.trim())
NonBlankLines(result) == SelectSeq(Split(result, NL), LAMBDA line : Trim(line) # <<>>)

ParseEventLines(result) ==
  LET lines == NonBlankLines(result) IN [i \in 1..Len(lines) |-> ParseEventLine(lines[i])]

\* the comparator (a, b) => new Date(a.start).getTime() - new Date(b.start).getTime()
\* as Array.prototype.sort reads it: a NaN result counts as +0
CompareStart(a, b) ==
  LET ta == GetTime(a.start)
      tb == GetTime(b.start)
  IN  IF ta.valid /\ tb.valid THEN ta.t - tb.t ELSE 0

\* A comparator is consistent when "compares equal" is transitive with the
\* order; this one is not as soon as a NaN meets two different timestamps.
ConsistentComparator(events) ==
  \A i, j, k \in 1..Len(events) :
    /\ (CompareStart(events[i], events[j]) = 0 /\ CompareStart(events[j], events[k]) = 0)
         => CompareStart(events[i], events[k]) = 0
    /\ (CompareStart(events[i], events[j]) < 0 /\ CompareStart(events[j], events[k]) = 0)
         => CompareStart(events[i], events[k]) < 0
    /\ (CompareStart(events[i], events[j]) = 0 /\ CompareStart(events[j], events[k]) < 0)
         => CompareStart(events[i], events[k]) < 0

\* stable insertion: e goes after every element that does not compare greater
RECURSIVE InsertStable(_, _)
InsertStable(sorted, e) ==
  IF sorted = <<>> THEN <<e>>
  ELSE IF CompareStart(Head(sorted), e) <= 0
       THEN <<Head(sorted)>> \o InsertStable(Tail(sorted), e)
       ELSE <<e>> \o sorted

RECURSIVE StableSort(_)
StableSort(events) ==
  IF events = <<>> THEN <<>>
  ELSE InsertStable(StableSort(SubSeq(events, 1, Len(events) - 1)), events[Len(events)])

Reorderings(events) ==
  {[i \in 1..Len(events) |-> events[p[i]]] : p \in Permutations(1..Len(events))}

\* Array.prototype.sort(comparefn): the stable sort when the comparator is
\* consistent, an implementation-defined order of the same elements otherwise
SortOutcomes(events) ==
  IF ConsistentComparator(events) THEN {StableSort(events)} ELSE Reorderings(events)

ParseCalendarLines(result) ==
  LET lines == NonBlankLines(result) IN [i \in 1..Len(lines) |-> lines[i]]

\* ------------------------------------------------------------- responses
\* isError = FALSE stands for a response without the isError key
Response(text, isError) == [sent |-> TRUE, text |-> text, isError |-> isError]
NoResponse == [sent |-> FALSE, text |-> <<>>, isError |-> FALSE]

\* new Date().toISOString().split("T")[0] of a day number
IsoDate(day) == <<"day-" \o ToString(day)>>

EventJson(e) ==
  JObject(<<"calendar", "title", "start", "end", "location">>,
          <<OptJson(e.calendar), OptJson(e.title), OptJson(e.start), OptJson(e.end),
            OptJson(e.location)>>)

EventsJson(events) == JArray([i \in 1..Len(events) |-> EventJson(events[i])])

CreateEventResponse(args) ==
  LET addImmediately == IF args.addImmediately.present
                        THEN args.addImmediately.v ELSE TRUE
  IN Response(Stringify(JObject(
       <<"success", "message", "calendar", "addedImmediately">>,
       <<JBool(TRUE),
         JString(<<"Event created: ", Q>> \o TemplateText(args.sentence) \o <<Q>>),
         JString(IF TruthyText(args.calendar) THEN args.calendar.v ELSE <<"default">>),
         JBool(addImmediately)>>)), FALSE)

GetTodayResponse(events, utcDay) ==
  Response(Stringify(JObject(<<"date", "count", "events">>,
     <<JString(IsoDate(utcDay)), JNumber(Len(events)), EventsJson(events)>>)), FALSE)

GetUpcomingResponse(events, startDay, endDay, days) ==
  Response(Stringify(JObject(<<"range", "count", "events">>,
     <<JObject(<<"start", "end", "days">>,
               <<JString(IsoDate(startDay)), JString(IsoDate(endDay)), JNumber(days)>>),
       JNumber(Len(events)), EventsJson(events)>>)), FALSE)

ShowDateResponse(args) ==
  Response(Stringify(JObject(<<"success", "message">>,
     <<JBool(TRUE),
       JString(<<"Opened Fantastical to date: ">> \o TemplateText(args.date))>>)), FALSE)

GetCalendarsResponse(calendars) ==
  Response(Stringify(JObject(<<"count", "calendars">>,
     <<JNumber(Len(calendars)),
       JArray([i \in 1..Len(calendars) |->
                 JObject(<<"name">>, <<JString(calendars[i])>>)])>>)), FALSE)

SearchResponse(args) ==
  Response(Stringify(JObject(<<"success", "message">>,
     <<JBool(TRUE),
       JString(<<"Opened Fantastical search for: ", Q>>
               \o TemplateText(args.query) \o <<Q>>)>>)), FALSE)

\* the fallback response without its note
FallbackResponseWithoutNote == Response(CALENDAR_PERMISSION_MESSAGE, TRUE)

PermissionFallbackResponse == Response(CALENDAR_PERMISSION_MESSAGE \o FallbackNote, TRUE)

\* the get_calendars response with the note of a fallback it never made
PermissionResponseWithNote == Response(CALENDAR_PERMISSION_MESSAGE \o FallbackNote, TRUE)

PermissionResponse == Response(CALENDAR_PERMISSION_MESSAGE, TRUE)

\* the outer catch: String(error) of a non-Error value is its text
OuterCatch(error) == Response(<<"Error: ">> \o error.message, TRUE)

\* an unknown-tool error that does not say which tool
UnknownToolErrorUnnamed(name) == ErrorOf(<<"Unknown tool">>)

UnknownToolError(name) == ErrorOf(<<"Unknown tool: ", name>>)

\* ------------------------------------------------------------ input sets
MaxLines == 3

\* the lines a listing script can print (without their newline)
Lines ==
  { <<"Work", PIPE, "Standup", PIPE, "2025-01-01", PIPE, "2025-01-01", PIPE, "Room", SP, "1">>,
    <<"Home", PIPE, "Dentist", PIPE, "2025-01-02", PIPE, "2025-01-02", PIPE>>,
    <<"Work", PIPE, "Say", SP, Q, "hi", Q, PIPE, "2025-01-01", PIPE, "2025-01-03">>,
    <<"Home">>,
    <<SP>>,
    <<>> }

\* the listings of at most n lines, no line printed twice
RECURSIVE LineSeqs(_)
LineSeqs(n) ==
  IF n = 0 THEN {<<>>}
  ELSE LET shorter == LineSeqs(n - 1) IN
       shorter \cup
         UNION {{Append(ls, l) : l \in Lines \ {ls[i] : i \in 1..Len(ls)}} :
                ls \in {x \in shorter : Len(x) = n - 1}}

\* standard output of a listing script: every line ends with a newline
Stdouts == {Concat([i \in 1..Len(ls) |-> ls[i] \o <<NL>>]) : ls \in LineSeqs(MaxLines)}

PermissionStderr == <<"execution error: ", PermissionPhrase, ". (", PermissionCodeText, ")">>
PhraseStderr     == <<"execution error: ", PermissionPhrase>>
OtherStderr      == <<"execution error: ", "file not found">>

ScriptOutcomes ==
  {ExecOutcome(TRUE, so, <<>>) : so \in Stdouts}
  \cup {ExecOutcome(TRUE, <<>>, se) : se \in {PermissionStderr, PhraseStderr, OtherStderr}}
  \cup {ExecOutcome(TRUE, <<"Home", NL>>, se) : se \in {PermissionStderr, OtherStderr}}
  \cup {ExecOutcome(FALSE, <<>>, se) : se \in {PermissionStderr, OtherStderr, <<>>}}
  \cup {ExecOutcome(FALSE, <<"Home", NL>>, OtherStderr)}

OpenOutcomes ==
  { ExecOutcome(TRUE, <<>>, <<>>),
    ExecOutcome(TRUE, <<>>, <<"warning">>),
    ExecOutcome(FALSE, <<>>, <<"LSOpenURLsWithRole() failed for the application">>) }

Texts ==
  { <<"Lunch">>, <<"Lunch", SP, "noon">>, <<"a", AMP, "calendarName", EQ, "x", AMP, "n", EQ, "y">>,
    <<"say", SP, Q, "hi", Q>> }

OptTexts == {NoText, Some(<<>>)} \cup {Some(t) : t \in Texts}

OptNames == {NoText, Some(<<>>), Some(<<"Work">>)}

OptBools == {NoBool, Some(TRUE), Some(FALSE)}

OptDays == {NoNumber, Some(1), Some(-1743)}

\* the moment of a call: the UTC day, the local day, and whether local
\* midnight falls on the previous UTC day (zones east of Greenwich)
Clocks ==
  { [utc |-> 20089, local |-> 20089, east |-> FALSE],
    [utc |-> 20089, local |-> 20090, east |-> TRUE] }

UnknownNames == {"fantastical_delete_event", "get_today"}

ArgBags(name) ==
  {UndefinedArgs} \cup
  CASE name = "fantastical_create_event" ->
         {[EmptyArgs EXCEPT !.sentence = s, !.calendar = c, !.notes = n,
                            !.addImmediately = a] :
            s \in OptTexts, c \in OptNames, n \in OptNames, a \in OptBools}
    [] name = "fantastical_get_upcoming" ->
         {[EmptyArgs EXCEPT !.days = d] : d \in OptDays}
    [] name = "fantastical_show_date" ->
         {[EmptyArgs EXCEPT !.date = d] : d \in OptTexts}
    [] name = "fantastical_search" ->
         {[EmptyArgs EXCEPT !.query = q] : q \in OptTexts}
    [] OTHER -> {EmptyArgs}

\* ----------------------------------------------------------------- state
VARIABLES
  platform,    \* process.platform
  procState,   \* "init", "running" (transport connected) or "exited"
  exitCode,    \* the code given to process.exit, 0 while none was given
  errStream,   \* what console.error has written
  pc,          \* where the request being served is: idle, awaiting, listed or done
  req,         \* the request being handled
  launched,    \* the commands this invocation has handed to exec, in order
  settled,     \* how each launched command ended, once awaited, in order
  response,    \* the handler's return value
  escaped,     \* an exception left the handler
  toolsReply,  \* the list-tools handler's return value, <<>> while there is none
  ran          \* what the command executor's last run returned or threw

vars == <<platform, procState, exitCode, errStream, pc, req, launched, settled,
          response, escaped, toolsReply, ran>>

NoClock   == [utc |-> 0, local |-> 0, east |-> FALSE]
NoRequest == [name |-> "", args |-> UndefinedArgs, clock |-> NoClock]

\* the executor's promise: pending, or settled with what it returned or threw
NoRun == [done |-> FALSE, mode |-> "", threw |-> FALSE, value |-> <<>>,
          error |-> ErrorOf(<<>>)]
Ran(mode, r) == [done |-> TRUE, mode |-> mode, threw |-> r.threw, value |-> r.value,
                 error |-> r.error]

Init ==
  /\ platform \in {"darwin", "linux", "win32"}
  /\ procState = "init"
  /\ exitCode = 0
  /\ errStream = <<>>
  /\ pc = "idle"
  /\ req = NoRequest
  /\ launched = <<>>
  /\ settled = <<>>
  /\ response = NoResponse
  /\ escaped = FALSE
  /\ toolsReply = <<>>
  /\ ran = NoRun

\* ---------------------------------------------------------------- main()
\* a start-up that takes every platform for the required one
AnyPlatformSupported(p) == TRUE

\* process.platform !== "darwin", negated
IsSupportedPlatform(p) == p = "darwin"

Main ==
  /\ procState = "init"
  /\ IF ~IsSupportedPlatform(platform)
     THEN /\ errStream' = Append(errStream,
               <<"Error: This MCP server only works on macOS (Fantastical is macOS-only)">>)
          /\ exitCode' = 1
          /\ procState' = "exited"
     ELSE \E connected \in BOOLEAN :
            IF connected
            THEN /\ errStream' = Append(errStream, <<"Fantastical MCP server running">>)
                 /\ procState' = "running"
                 /\ exitCode' = exitCode
            ELSE /\ errStream' = Append(errStream, <<"Fatal error:", "connect failed">>)
                 /\ exitCode' = 1
                 /\ procState' = "exited"
  /\ UNCHANGED <<platform, pc, req, launched, settled, response, escaped, toolsReply, ran>>

\* ------------------------------------------------------ call-tool handler
\* What the handler's first synchronous stretch ends with: a command handed
\* to exec (and the await it suspends at), or a thrown error.
Launch(cmd, at) == [threw |-> FALSE, cmd |-> cmd, at |-> at, error |-> ErrorOf(<<>>)]
ThrowAtStart(e) == [threw |-> TRUE, cmd |-> <<>>, at |-> "done", error |-> e]

Begin(name, args) ==
  CASE name = "fantastical_create_event" ->
         IF ~args.defined THEN ThrowAtStart(DestructureError("sentence"))
         ELSE Launch(OpenCommand(CreateEventUrl(args)), "awaitOpen")
    [] name = "fantastical_get_today" ->
         Launch(OsascriptCommand(GetTodayScript), "awaitScript")
    [] name = "fantastical_get_upcoming" ->
         IF ~args.defined THEN ThrowAtStart(DestructureError("days"))
         ELSE Launch(OsascriptCommand(GetUpcomingScript(
                       IF args.days.present THEN args.days.v ELSE 7)), "awaitScript")
    [] name = "fantastical_show_date" ->
         IF ~args.defined THEN ThrowAtStart(DestructureError("date"))
         ELSE Launch(OpenCommand(ShowDateUrl(args)), "awaitOpen")
    [] name = "fantastical_get_calendars" ->
         Launch(OsascriptCommand(GetCalendarsScript), "awaitScript")
    [] name = "fantastical_search" ->
         IF ~args.defined THEN ThrowAtStart(DestructureError("query"))
         ELSE Launch(OpenCommand(SearchUrl(args)), "awaitOpen")
    [] OTHER -> ThrowAtStart(UnknownToolError(name))

\* a handler without the outer catch: a thrown error leaves it
CompleteWithoutCatch(outcome) ==
  IF outcome.threw
  THEN [response |-> NoResponse, escaped |-> TRUE]
  ELSE [response |-> outcome.response, escaped |-> FALSE]

\* The outer try/catch around the switch: a thrown error becomes a response
Complete(outcome) ==
  IF outcome.threw
  THEN [response |-> OuterCatch(outcome.error), escaped |-> FALSE]
  ELSE [response |-> outcome.response, escaped |-> FALSE]

Respond(r) == [threw |-> FALSE, response |-> r, error |-> ErrorOf(<<>>)]
Raise(e)   == [threw |-> TRUE, response |-> NoResponse, error |-> e]

Finish(outcome) ==
  /\ response' = Complete(outcome).response
  /\ escaped' = Complete(outcome).escaped
  /\ pc' = "done"

CallTool(name, args, now) ==
  /\ procState = "running"
  /\ pc = "idle"
  /\ req' = [name |-> name, args |-> args, clock |-> now]
  /\ settled' = <<>>
  /\ LET b == Begin(name, args) IN
     IF b.threw
     THEN /\ launched' = <<>>
          /\ Finish(Raise(b.error))
     ELSE /\ launched' = <<b.cmd>>
          /\ response' = NoResponse
          /\ escaped' = FALSE
          /\ pc' = b.at
  /\ UNCHANGED <<platform, procState, exitCode, errStream, toolsReply, ran>>

\* ----------------------------------------------------- list-tools handler
\* The handler has no await: it runs to its return in one step. Requests are
\* taken one at a time here, as the call-tool requests are.
ListTools ==
  /\ procState = "running"
  /\ pc = "idle"
  /\ toolsReply' = TOOLS
  /\ pc' = "listed"
  /\ UNCHANGED <<platform, procState, exitCode, errStream, req, launched, settled,
                 response, escaped, ran>>

IsEventTool(name) == name \in {"fantastical_get_today", "fantastical_get_upcoming"}

\* the day toISOString shows for new Date(y, m, d + days), local midnight
EndDay(clock, days) == clock.local + days - (IF clock.east THEN 1 ELSE 0)

\* The responses the try block of an event tool can return for a listing:
\* one per order Array.prototype.sort may leave the events in
EventToolResponses(r, now, stdout) ==
  LET days == IF r.args.days.present THEN r.args.days.v ELSE 7 IN
  { IF r.name = "fantastical_get_today"
    THEN GetTodayResponse(events, now.utc)
    ELSE GetUpcomingResponse(events, r.clock.utc, EndDay(r.clock, days), days) :
    events \in SortOutcomes(ParseEventLines(stdout)) }

\* The awaited osascript run of get_today, get_upcoming or get_calendars ends
ScriptSettlesWith(out, now) ==
  /\ pc = "awaitScript"
  /\ LET r == RunAppleScriptMultiline(launched[1], out) IN
     /\ settled' = Append(settled, out)
     /\ ran' = Ran("multi", r)
     /\ IF ~r.threw
        THEN /\ launched' = launched
             /\ IF IsEventTool(req.name)
                THEN \E resp \in EventToolResponses(req, now, r.value) : Finish(Respond(resp))
                ELSE Finish(Respond(GetCalendarsResponse(ParseCalendarLines(r.value))))
        ELSE IF IsCalendarPermissionError(r.error)
        THEN IF IsEventTool(req.name)
             THEN /\ launched' = Append(launched, OpenCommand(ShowTodayUrl))
                  /\ pc' = "awaitFallback"
                  /\ UNCHANGED <<response, escaped>>
             ELSE /\ launched' = launched
                  /\ Finish(Respond(PermissionResponse))
        ELSE /\ launched' = launched
             /\ Finish(Raise(r.error))
  /\ UNCHANGED <<platform, procState, exitCode, errStream, toolsReply, req>>

UrlToolResponse(r) ==
  CASE r.name = "fantastical_create_event" -> CreateEventResponse(r.args)
    [] r.name = "fantastical_show_date" -> ShowDateResponse(r.args)
    [] OTHER -> SearchResponse(r.args)

\* The awaited URL open of create_event, show_date or search ends
OpenSettlesWith(out) ==
  /\ pc = "awaitOpen"
  /\ settled' = Append(settled, out)
  /\ LET r == OpenFantasticalUrl(launched[1], out) IN
     IF r.threw THEN Finish(Raise(r.error))
     ELSE Finish(Respond(UrlToolResponse(req)))
  /\ UNCHANGED <<platform, procState, exitCode, errStream, toolsReply, ran, req, launched>>

\* The awaited fallback URL open in the catch of get_today/get_upcoming ends
FallbackSettlesWith(out) ==
  /\ pc = "awaitFallback"
  /\ settled' = Append(settled, out)
  /\ LET r == OpenFantasticalUrl(launched[Len(launched)], out) IN
     IF r.threw THEN Finish(Raise(r.error))
     ELSE Finish(Respond(PermissionFallbackResponse))
  /\ UNCHANGED <<platform, procState, exitCode, errStream, toolsReply, ran, req, launched>>

\* The handler's promise settles: the transport takes the response (or the
\* escaped exception) and nothing of the invocation is kept
Return ==
  /\ pc \in {"done", "listed"}
  /\ pc' = "idle"
  /\ req' = NoRequest
  /\ launched' = <<>>
  /\ settled' = <<>>
  /\ response' = NoResponse
  /\ escaped' = FALSE
  /\ toolsReply' = <<>>
  /\ ran' = NoRun
  /\ UNCHANGED <<platform, procState, exitCode, errStream>>

\* the clock is read at the start by get_upcoming and at the end by get_today
ClocksAtStart(name) == IF name = "fantastical_get_upcoming" THEN Clocks ELSE {NoClock}
ClocksAtEnd(name)   == IF name = "fantastical_get_today" THEN Clocks ELSE {NoClock}

ScriptSettles ==
  /\ pc = "awaitScript"
  /\ \E out \in ScriptOutcomes, now \in ClocksAtEnd(req.name) : ScriptSettlesWith(out, now)

OpenSettles ==
  /\ pc = "awaitOpen"
  /\ \E out \in OpenOutcomes : OpenSettlesWith(out)

FallbackSettles ==
  /\ pc = "awaitFallback"
  /\ \E out \in OpenOutcomes : FallbackSettlesWith(out)

Call ==
  /\ pc = "idle"
  /\ \E name \in ToolNames \cup UnknownNames :
       \E args \in ArgBags(name), now \in ClocksAtStart(name) : CallTool(name, args, now)

Next ==
  \/ Main
  \/ Call
  \/ ListTools
  \/ ScriptSettles
  \/ OpenSettles
  \/ FallbackSettles
  \/ Return

Spec == Init /\ [][Next]_vars

\* ------------------------------------------- the command executor alone
\* Each mode of the executor applied to a script: the command is launched in
\* the initial state, and the action is the rest of the function from the
\* moment the awaited subprocess ends.
ExecutorScripts ==
  { InstalledCheckScript,
    <<"display dialog ", Q, "it", APOS, "s", SP, BS, "n", Q>>,
    GetCalendarsScript }

ExecutorInit ==
  /\ platform = "darwin"
  /\ procState = "init"
  /\ exitCode = 0
  /\ errStream = <<>>
  /\ pc = "awaitExec"
  /\ req = NoRequest
  /\ \E script \in ExecutorScripts :
       \/ launched = <<OsascriptStatementCommand(script)>> /\ ran = [NoRun EXCEPT !.mode = "single"]
       \/ launched = <<OsascriptCommand(script)>> /\ ran = [NoRun EXCEPT !.mode = "multi"]
  /\ settled = <<>>
  /\ response = NoResponse
  /\ escaped = FALSE
  /\ toolsReply = <<>>

RunAppleScriptSettles ==
  /\ pc = "awaitExec" /\ ran.mode = "single"
  /\ \E out \in ScriptOutcomes :
       /\ settled' = <<out>>
       /\ ran' = Ran("single", RunAppleScript(launched[1], out))
  /\ pc' = "done"
  /\ UNCHANGED <<platform, procState, exitCode, errStream, req, launched, response,
                 escaped, toolsReply>>

RunAppleScriptMultilineSettles ==
  /\ pc = "awaitExec" /\ ran.mode = "multi"
  /\ \E out \in ScriptOutcomes :
       /\ settled' = <<out>>
       /\ ran' = Ran("multi", RunAppleScriptMultiline(launched[1], out))
  /\ pc' = "done"
  /\ UNCHANGED <<platform, procState, exitCode, errStream, req, launched, response,
                 escaped, toolsReply>>

ExecutorNext == RunAppleScriptSettles \/ RunAppleScriptMultilineSettles

ExecutorSpec == ExecutorInit /\ [][ExecutorNext]_vars

\* ======================================================================
\* Properties
\* ======================================================================
Done == pc = "done"

UrlTools     == {"fantastical_create_event", "fantastical_show_date", "fantastical_search"}
ListingTools == {"fantastical_get_today", "fantastical_get_upcoming",
                 "fantastical_get_calendars"}

\* the i-th command of the invocation has been awaited and failed
CommandFailed(i) ==
  /\ i <= Len(settled)
  /\ \/ ~settled[i].ok
     \/ IsOsascript(launched[i]) /\ settled[i].stderr # <<>> /\ settled[i].stdout = <<>>

\* the error text of a failed command, before any prefixing
FailureText(i) ==
  IF settled[i].ok THEN settled[i].stderr
  ELSE <<"Command failed: ">> \o launched[i] \o <<NL>> \o settled[i].stderr

HasPermissionMarker(text) ==
  Includes(text, "-1743")
  \/ Includes(text, "Not authorised to send Apple events to Calendar")

\* the scripting command ran and failed with a permission-denied error
ScriptPermissionDenied ==
  /\ launched # <<>> /\ IsOsascript(launched[1])
  /\ CommandFailed(1)
  /\ HasPermissionMarker(settled[1].stderr)

ThrewAtStart == Done /\ launched = <<>>

InvocationFailed ==
  Done /\ (ThrewAtStart \/ \E i \in 1..Len(settled) : CommandFailed(i))

\* the message of the error the invocation last met
LastErrorMessage ==
  IF launched = <<>>
  THEN IF req.name \in ToolNames
       THEN <<"Cannot destructure property '",
              CASE req.name = "fantastical_create_event" -> "sentence"
                [] req.name = "fantastical_get_upcoming" -> "days"
                [] req.name = "fantastical_show_date" -> "date"
                [] OTHER -> "query",
              "' of 'args' as it is undefined.">>
       ELSE <<"Unknown tool: ", req.name>>
  ELSE LET n == Len(settled) IN
       IF IsOsascript(launched[n])
       THEN <<"AppleScript error: ">> \o FailureText(n)
       ELSE FailureText(n)

IsErrorEcho == response.text = <<"Error: ">> \o LastErrorMessage

\* C1: every invocation ends in a structured response and no exception leaves
\* the handler; a failed invocation is answered with isError = true and a
\* text that is "Error: " plus the error message, or that begins with the
\* remediation message.
C1_StructuredResponse ==
  /\ ~escaped
  /\ Done => response.sent
  /\ InvocationFailed =>
       /\ response.isError
       /\ IsErrorEcho \/ StartsWith(response.text, CALENDAR_PERMISSION_MESSAGE)

C1_Witness_FallbackOpenFails ==
  /\ Done /\ Len(settled) = 2 /\ ~settled[2].ok
  /\ response.sent /\ response.isError /\ IsErrorEcho

\* C2 (as claimed): an invocation never launches more than one subprocess.
C2_AtMostOneLaunch == Len(launched) <= 1

\* C2 (amended): an invocation launches at most two subprocesses, and a second
\* one only in get_today and get_upcoming, after the osascript run failed with
\* an error text carrying a permission-denied marker; the second launch is the
\* open of the show-today URL.
C2_AtMostTwoLaunches ==
  /\ Len(launched) <= 2
  /\ Len(launched) = 2 =>
       /\ req.name \in {"fantastical_get_today", "fantastical_get_upcoming"}
       /\ IsOsascript(launched[1]) /\ CommandFailed(1)
       /\ HasPermissionMarker(FailureText(1))
       /\ launched[2] = <<"open ", Q, "x-fantastical3://show/calendar/today", Q>>

C2_Witness_TwoLaunches == Done /\ Len(launched) = 2 /\ Len(settled) = 2

\* the success payload of a URL tool: success = true plus the echo
IsSuccessEcho ==
  LET parsed == JsonParse(response.text) IN
  /\ parsed.ok
  /\ Member(parsed.val, "success") = JBool(TRUE)
  /\ Member(parsed.val, "message") =
       JString(CASE req.name = "fantastical_create_event" ->
                      <<"Event created: ", Q>> \o TemplateText(req.args.sentence) \o <<Q>>
                 [] req.name = "fantastical_show_date" ->
                      <<"Opened Fantastical to date: ">> \o TemplateText(req.args.date)
                 [] OTHER ->
                      <<"Opened Fantastical search for: ", Q>>
                      \o TemplateText(req.args.query) \o <<Q>>)

\* C3 (as claimed): create_event, show_date and search answer with the success
\* payload, never error-flagged, whatever the arguments and however the
\* URL-open command ends.
C3_AlwaysSuccess ==
  (Done /\ req.name \in UrlTools /\ req.args.defined) =>
     (~response.isError /\ IsSuccessEcho)

\* C3 (amended): create_event, show_date and search answer with the success
\* payload, not error-flagged, whenever an argument bag was supplied and the
\* URL-open command succeeded; when the bag is missing or the URL-open command
\* fails, the answer is error-flagged "Error: " plus the error message.
C3_SuccessUnlessOpenFails ==
  (Done /\ req.name \in UrlTools) =>
     IF req.args.defined /\ Len(settled) = 1 /\ settled[1].ok
     THEN ~response.isError /\ IsSuccessEcho
     ELSE response.isError /\ IsErrorEcho

C3_Witness_SuccessWithQuote ==
  /\ Done /\ req.name = "fantastical_create_event"
  /\ req.args.sentence = Some(<<"say", SP, Q, "hi", Q>>)
  /\ Len(settled) = 1 /\ settled[1].ok /\ settled[1].stderr # <<>>
  /\ ~response.isError /\ IsSuccessEcho

\* C4 (as claimed): in get_today and get_upcoming a permission-denied failure
\* of the scripting command is followed by the open of the show-today URL and
\* then by the error-flagged remediation message plus the fallback note.
C4_FallbackAlwaysAnswersRemediation ==
  (req.name \in {"fantastical_get_today", "fantastical_get_upcoming"}
   /\ ScriptPermissionDenied) =>
     /\ Len(launched) = 2
     /\ launched[2] = <<"open ", Q, "x-fantastical3://show/calendar/today", Q>>
     /\ ~Done => ~response.sent
     /\ Done => /\ response.isError
                /\ response.text = CALENDAR_PERMISSION_MESSAGE
                     \o <<NL, NL, "Fallback: Opened Fantastical to today's view.">>

\* C4 (amended): ... the show-today URL is opened first; no response exists
\* while that open is awaited; if the open succeeds the response is the
\* error-flagged remediation message plus the fallback note, and if the open
\* fails the response is error-flagged "Error: " plus the open's error message.
C4_FallbackThenRemediation ==
  (req.name \in {"fantastical_get_today", "fantastical_get_upcoming"}
   /\ ScriptPermissionDenied) =>
     /\ Len(launched) = 2
     /\ launched[2] = <<"open ", Q, "x-fantastical3://show/calendar/today", Q>>
     /\ ~Done => (pc = "awaitFallback" /\ ~response.sent)
     /\ Done => /\ Len(settled) = 2
                /\ response.isError
                /\ IF settled[2].ok
                   THEN response.text = CALENDAR_PERMISSION_MESSAGE
                          \o <<NL, NL, "Fallback: Opened Fantastical to today's view.">>
                   ELSE response.text = <<"Error: ">> \o FailureText(2)

C4_Witness_FallbackDone ==
  /\ Done /\ req.name = "fantastical_get_upcoming" /\ ScriptPermissionDenied
  /\ Len(settled) = 2 /\ settled[2].ok /\ response.isError

\* C5: in get_calendars a permission-denied failure of the scripting command
\* is answered with isError = true and exactly the remediation message, and
\* the invocation launches no URL-open command.
C5_CalendarsNoFallback ==
  (req.name = "fantastical_get_calendars" /\ ScriptPermissionDenied) =>
     /\ Done
     /\ response.isError
     /\ response.text = CALENDAR_PERMISSION_MESSAGE
     /\ \A i \in 1..Len(launched) : ~IsOpen(launched[i])

C5_Witness_CalendarsDenied ==
  /\ Done /\ req.name = "fantastical_get_calendars" /\ ScriptPermissionDenied
  /\ response.isError

\* C6: a tool name outside the catalog is answered with isError = true and a
\* message naming that tool, and no command is launched.
C6_UnknownTool ==
  (req # NoRequest /\ req.name \notin ToolNames) =>
     /\ Done
     /\ response.isError
     /\ Includes(response.text, req.name)
     /\ launched = <<>>

C6_Witness_UnknownTool ==
  Done /\ req.name = "fantastical_delete_event" /\ response.isError

\* ---- the target of create_event, read back from the launched command
FormDecodeTok(tok) ==
  CASE tok = "+"   -> <<SP>>
    [] tok = "%26" -> <<AMP>>
    [] tok = "%3D" -> <<EQ>>
    [] tok = "%22" -> <<Q>>
    [] tok = "%5C" -> <<BS>>
    [] tok = "%0A" -> <<NL>>
    [] tok = "%7C" -> <<PIPE>>
    [] tok = "%2B" -> <<"+">>
    [] tok = "%25" -> <<"%">>
    [] OTHER       -> <<tok>>

\* the query string of the URL in open "<scheme>://parse?<query>"
TargetQuery == SubSeq(launched[1], 4, Len(launched[1]) - 1)

\* its parameters, as a URL parser reads them: cut at "&", then at the first "="
TargetParams ==
  LET parts == SelectSeq(Split(TargetQuery, AMP), LAMBDA part : part # <<>>) IN
  [i \in 1..Len(parts) |->
     LET kv == Split(parts[i], EQ) IN
     [k |-> MapTokens(kv[1], FormDecodeTok),
      v |-> MapTokens(JoinWith(Tail(kv), <<EQ>>), FormDecodeTok)]]

HasParam(k) == \E i \in 1..Len(TargetParams) : TargetParams[i].k = <<k>>

ParamValues(k) ==
  {TargetParams[i].v : i \in {j \in 1..Len(TargetParams) : TargetParams[j].k = <<k>>}}

CreateEventLaunched ==
  /\ req.name = "fantastical_create_event"
  /\ launched # <<>>
  /\ SubSeq(launched[1], 1, 3) = <<"open ", Q, "x-fantastical3://parse?">>

\* C7 (as claimed): the target of create_event always has the parameter s; it
\* has calendarName iff a calendar was supplied, n iff notes were supplied,
\* and add=1 iff addImmediately is true or omitted.
C7_ParamsIffSupplied ==
  (req.name = "fantastical_create_event" /\ launched # <<>>) =>
     /\ CreateEventLaunched
     /\ HasParam("s")
     /\ HasParam("calendarName") <=> req.args.calendar.present
     /\ HasParam("n") <=> req.args.notes.present
     /\ (ParamValues("add") = {<<"1">>}) <=>
          (~req.args.addImmediately.present \/ req.args.addImmediately.v)

\* C7 (amended): the target of create_event always has the parameter s,
\* carrying the sentence; it has calendarName iff a non-empty calendar was
\* supplied, n iff non-empty notes were supplied (each carrying the supplied
\* value), and add=1 iff addImmediately is true or omitted, with no add
\* parameter otherwise.
C7_ParamsIffNonEmpty ==
  (req.name = "fantastical_create_event" /\ launched # <<>>) =>
     /\ CreateEventLaunched
     /\ ParamValues("s") = {TemplateText(req.args.sentence)}
     /\ ParamValues("calendarName") =
          IF req.args.calendar.present /\ req.args.calendar.v # <<>>
          THEN {req.args.calendar.v} ELSE {}
     /\ ParamValues("n") =
          IF req.args.notes.present /\ req.args.notes.v # <<>>
          THEN {req.args.notes.v} ELSE {}
     /\ ParamValues("add") =
          IF ~req.args.addImmediately.present \/ req.args.addImmediately.v
          THEN {<<"1">>} ELSE {}

C7_Witness_AmpersandInSentence ==
  /\ CreateEventLaunched
  /\ req.args.sentence = Some(<<"a", AMP, "calendarName", EQ, "x", AMP, "n", EQ, "y">>)
  /\ ~req.args.calendar.present
  /\ req.args.notes = Some(<<"Work">>)
  /\ req.args.addImmediately = Some(FALSE)
  /\ Len(TargetParams) = 2

\* ---- the shape of the response text
IsRemediationText ==
  \/ response.text = CALENDAR_PERMISSION_MESSAGE
  \/ response.text = CALENDAR_PERMISSION_MESSAGE
                       \o <<NL, NL, "Fallback: Opened Fantastical to today's view.">>

HasToolField ==
  LET parsed == JsonParse(response.text) IN
  /\ parsed.ok
  /\ req.name \in UrlTools => HasKey(parsed.val, "success")
  /\ req.name \in ListingTools => HasKey(parsed.val, "count")
  /\ req.name \in UrlTools \cup ListingTools

\* C8 (as claimed): every response is JSON text with a success or count field
\* depending on the tool, except the permission-denied responses, which are
\* the plain remediation text.
C8_JsonUnlessRemediation == Done => (HasToolField \/ IsRemediationText)

\* C8 (amended): every response that is not error-flagged is JSON text with a
\* success field (create_event, show_date, search) or a count field
\* (get_today, get_upcoming, get_calendars); every error-flagged response is
\* plain text, not JSON: the remediation text, or "Error: " plus the error
\* message.
C8_JsonUnlessError ==
  Done => IF response.isError
          THEN ~IsJson(response.text) /\ (IsRemediationText \/ IsErrorEcho)
          ELSE HasToolField

C8_Witness_QuoteInTitle ==
  /\ Done /\ req.name = "fantastical_get_today" /\ ~response.isError
  /\ Includes(settled[1].stdout, Q)
  /\ HasToolField /\ Member(JsonParse(response.text).val, "count") = JNumber(2)

\* ---- the event records of a listing response
DecodedEvents == Member(JsonParse(response.text).val, "events").vs

\* getTime() of a decoded record's start
DecodedTime(e) ==
  LET m == Member(e, "start") IN GetTime(IF m.t = "str" THEN Some(m.s) ELSE NoText)

\* the lines of the raw output that carry a record, in output order
RecordLines ==
  SelectSeq(Split(Trim(settled[1].stdout), NL), LAMBDA line : Trim(line) # <<>>)

EventKeys == <<"calendar", "title", "start", "end", "location">>

Min(a, b) == IF a <= b THEN a ELSE b

\* the record of a line as claimed: five fields, "" for each missing one
RecordAllStrings(line) ==
  LET pieces == Split(line, PIPE) IN
  JObject(EventKeys,
          [i \in 1..5 |-> JString(IF i <= Len(pieces) THEN pieces[i] ELSE <<>>)])

\* the record of a line as the code builds it: title, start and end exist only
\* if the line has them; location is "" when missing
RecordOfLine(line) ==
  LET pieces == Split(line, PIPE)
      n == Min(Len(pieces), 4)
  IN JObject(SubSeq(EventKeys, 1, n) \o <<"location">>,
             [i \in 1..n |-> JString(pieces[i])]
             \o <<JString(IF Len(pieces) >= 5 THEN pieces[5] ELSE <<>>)>>)

ListingSucceeded ==
  /\ Done /\ req.name \in {"fantastical_get_today", "fantastical_get_upcoming"}
  /\ Len(settled) = 1 /\ ~CommandFailed(1)

\* the records in the order of the response that have timestamp t
WithTime(events, t) ==
  SelectSeq(events, LAMBDA e : DecodedTime(e).valid /\ DecodedTime(e).t = t)

\* C9: the events of get_today and get_upcoming are in ascending order of
\* their parsed start timestamps whatever the order of the lines, and events
\* with equal timestamps keep the order their lines had.
C9_SortedStable ==
  ListingSucceeded =>
     LET events == DecodedEvents
         times  == [i \in 1..Len(events) |-> DecodedTime(events[i])]
         lines  == RecordLines
     IN
     /\ IsJson(response.text)
     /\ \A i, j \in 1..Len(events) :
          (i < j /\ times[i].valid /\ times[j].valid) => times[i].t <= times[j].t
     /\ \A t \in {20089, 20090, 20091} :
          WithTime(events, t)
            = WithTime([k \in 1..Len(lines) |-> RecordOfLine(lines[k])], t)

\* some pairing of the records with the record lines, one to one
RecordsMatchLines(R(_)) ==
  LET events   == DecodedEvents
      expected == [k \in 1..Len(RecordLines) |-> R(RecordLines[k])]
  IN
  /\ Len(events) = Len(expected)
  /\ \E p \in Permutations(1..Len(expected)) :
       \A k \in 1..Len(expected) : events[k] = expected[p[k]]

\* C10 (as claimed): a listing never fails on a short line; every record comes
\* from exactly one line split on "|", and each of title, start, end and
\* location the line lacks is the empty string.
C10_MissingFieldsEmpty ==
  ListingSucceeded =>
     /\ ~response.isError /\ IsJson(response.text)
     /\ RecordsMatchLines(RecordAllStrings)

\* C10 (amended): a listing never fails on a short line; every record comes
\* from exactly one line split on "|"; a missing location is the empty string,
\* while a missing title, start or end is undefined and so absent from the
\* record in the response text.
C10_MissingLocationEmpty ==
  ListingSucceeded =>
     /\ ~response.isError /\ IsJson(response.text)
     /\ RecordsMatchLines(RecordOfLine)

C10_Witness_ShortLines ==
  /\ ListingSucceeded /\ ~response.isError
  /\ Len(RecordLines) = 3
  /\ \E k \in 1..3 : RecordLines[k] = <<"Home">>
  /\ \E k \in 1..3 : Len(Split(RecordLines[k], PIPE)) = 4
  /\ LET events == DecodedEvents IN
     \E k \in 1..3 : events[k] = JObject(<<"calendar", "location">>,
                                         <<JString(<<"Home">>), JString(<<>>)>>)

\* ---- counting the lines of the raw output, token by token
\* the number of lines from position i on that hold a token other than
\* whitespace; inked says whether the line being read already holds one
RECURSIVE CountInkedLines(_, _, _)
CountInkedLines(text, i, inked) ==
  IF i > Len(text) THEN (IF inked THEN 1 ELSE 0)
  ELSE IF text[i] = NL
       THEN (IF inked THEN 1 ELSE 0) + CountInkedLines(text, i + 1, FALSE)
       ELSE CountInkedLines(text, i + 1, inked \/ text[i] # SP)

\* a listing tool whose script ran without failing
AnyListingSucceeded ==
  /\ Done /\ req.name \in ListingTools
  /\ Len(settled) = 1 /\ ~CommandFailed(1)

\* the key of the records in a listing tool's response
RecordsKey == IF req.name = "fantastical_get_calendars" THEN "calendars" ELSE "events"

\* C11: for get_today, get_upcoming and get_calendars the number of returned
\* records and the count field of the response both equal the number of lines
\* of the raw output that are neither empty nor whitespace-only.
C11_BlankLinesExcluded ==
  AnyListingSucceeded =>
     LET parsed == JsonParse(response.text)
         n      == CountInkedLines(settled[1].stdout, 1, FALSE)
     IN
     /\ ~response.isError /\ parsed.ok
     /\ Member(parsed.val, "count") = JNumber(n)
     /\ Member(parsed.val, RecordsKey).t = "arr"
     /\ Len(Member(parsed.val, RecordsKey).vs) = n

\* a listing whose raw output has an empty and a whitespace-only line around
\* one record line answers with one record
C11_Witness_BlankLinesDropped ==
  /\ AnyListingSucceeded /\ req.name = "fantastical_get_calendars"
  /\ settled[1].stdout = <<SP, NL, "Home", NL, NL>>
  /\ Member(JsonParse(response.text).val, "count") = JNumber(1)
  /\ Member(JsonParse(response.text).val, "calendars").vs
       = <<JObject(<<"name">>, <<JString(<<"Home">>)>>)>>

\* ---- start-up on a platform other than the required one
StartupDiagnostic ==
  <<"Error: This MCP server only works on macOS (Fantastical is macOS-only)">>

\* C12: on a platform other than darwin the transport is never connected, so
\* no list-tools or call-tool request is ever served and no external command
\* is ever run; once start-up has run, the diagnostic is the only text on the
\* error stream and the process has exited with code 1.
C12_WrongPlatformExits ==
  platform # "darwin" =>
     /\ procState \in {"init", "exited"}
     /\ procState = "init" => exitCode = 0 /\ errStream = <<>>
     /\ procState = "exited" => exitCode = 1 /\ errStream = <<StartupDiagnostic>>
     /\ pc = "idle" /\ req = NoRequest
     /\ toolsReply = <<>> /\ ~response.sent /\ ~escaped
     /\ launched = <<>> /\ settled = <<>>

\* start-up has run on linux and ended the process
C12_Witness_ExitedOnLinux ==
  /\ platform = "linux" /\ procState = "exited" /\ exitCode = 1
  /\ errStream = <<StartupDiagnostic>>

\* ---- how the failure of a listing tool's script is classified
\* the scripting command of a listing tool ran and the executor threw
ListingScriptFailed ==
  /\ req.name \in ListingTools
  /\ ran.done /\ ran.threw

\* the invocation took the permission-denied branch: the event tools launch the
\* fallback open, get_calendars answers with the remediation message
TookPermissionBranch ==
  IF req.name = "fantastical_get_calendars"
  THEN Done /\ response.text = CALENDAR_PERMISSION_MESSAGE
  ELSE Len(launched) = 2 /\ launched[2] = OpenCommand(ShowTodayUrl)

\* C13: the failure of a listing tool's script is classified as
\* permission-denied exactly when it is an Error whose message contains
\* "-1743" or "Not authorised to send Apple events to Calendar"; a failure
\* whose message has neither is answered with isError = true and "Error: "
\* plus that message, and no URL is opened.
C13_ClassifiedByMessage ==
  ListingScriptFailed =>
     LET marked == /\ ran.error.isErrorObject
                   /\ \/ Includes(ran.error.message, "-1743")
                      \/ Includes(ran.error.message,
                                  "Not authorised to send Apple events to Calendar")
     IN
     /\ TookPermissionBranch <=> marked
     /\ ~marked =>
          /\ Done /\ response.isError
          /\ response.text = <<"Error: ">> \o ran.error.message
          /\ \A i \in 1..Len(launched) : ~IsOpen(launched[i])

\* osascript is rejected with "file not found" in get_upcoming: generic error
C13_Witness_FileNotFound ==
  /\ Done /\ req.name = "fantastical_get_upcoming" /\ ListingScriptFailed
  /\ ~settled[1].ok /\ settled[1].stderr = <<"execution error: ", "file not found">>
  /\ response.isError /\ StartsWith(response.text, <<"Error: ", "AppleScript error: ">>)
  /\ Includes(response.text, "file not found")
  /\ Len(launched) = 1

\* ---- what a run of the command executor ends with
\* v is s without its leading and trailing whitespace
IsTrimOf(v, s) ==
  /\ v # <<>> => ~IsWhite(v[1]) /\ ~IsWhite(v[Len(v)])
  /\ \E a \in 0..Len(s) :
       /\ a + Len(v) <= Len(s)
       /\ SubSeq(s, a + 1, a + Len(v)) = v
       /\ \A k \in 1..Len(s) : (k <= a \/ k > a + Len(v)) => IsWhite(s[k])

\* the text of the failure the executor wraps: the standard-error output of a
\* subprocess that ended normally, the message of exec's rejection otherwise
UnderlyingText ==
  IF settled[1].ok THEN settled[1].stderr
  ELSE <<"Command failed: ">> \o launched[1] \o <<NL>> \o settled[1].stderr

\* C14: in both modes the executor fails exactly when the subprocess fails or
\* ends with non-empty standard-error and empty standard-output, and then
\* throws an Error whose message is "AppleScript error: " followed by the
\* underlying text; a run that ends with non-empty standard-output returns
\* it trimmed, whatever is on standard-error.
C14_ExecutorFailsExactlyWhen ==
  ran.done =>
     LET out    == settled[1]
         failed == ~out.ok \/ (out.stderr # <<>> /\ out.stdout = <<>>)
     IN
     /\ ran.mode \in {"single", "multi"}
     /\ ran.threw <=> failed
     /\ ran.threw =>
          /\ ran.error.isErrorObject
          /\ ran.error.message = <<"AppleScript error: ">> \o UnderlyingText
     /\ ~ran.threw => IsTrimOf(ran.value, out.stdout)
     /\ (out.ok /\ out.stdout # <<>>) => ~ran.threw

\* the single-statement mode returns "Home" from a run that also wrote to
\* standard-error, for a script with an apostrophe to escape
C14_Witness_StdoutWithStderr ==
  /\ ran.done /\ ran.mode = "single" /\ ~ran.threw
  /\ Includes(launched[1], BS) /\ launched[1][2] = APOS
  /\ settled[1].stdout = <<"Home", NL>> /\ settled[1].stderr # <<>>
  /\ ran.value = <<"Home">>
=============================================================================
